---- MODULE Spec2Model ----
(***************************************************************************)
(* A model of models/r_net.py: the order bookkeeping of RNet.forward, the  *)
(* residual addition of packed sequences, the pointer network's wiring,    *)
(* the shapes of the char-level CNN, the construction of the components    *)
(* and the device placement of Model.forward.                              *)
(*                                                                         *)
(* A tensor is modelled by its two leading axes: a sequence of rows, each  *)
(* a sequence of cells; the feature axis is one cell.  A cell is a record  *)
(* [ex, pos, v]: v is the cell's content, ex and pos say which example of  *)
(* the caller's batch (its original position) and which token position     *)
(* the content was computed from (0 for padding).                          *)
(***************************************************************************)
EXTENDS Integers, Sequences, FiniteSets, TLC

\* ------------------------------------------------------------------ bounds
BatchSize == 3
MaxLen == 2
MaxLayers == 2
MaxWidth == 3
MaxWidths == 2
MaxDim == 2

\* ----------------------------------------------------------------- helpers
Range(f) == {f[i] : i \in DOMAIN f}

Cell(ex, pos, v) == [ex |-> ex, pos |-> pos, v |-> v]

\* the zero vector pad_packed_sequence fills with
PadCell == Cell(0, 0, 0)

IsDescending(s) == \A i \in 1..(Len(s) - 1) : s[i] >= s[i + 1]

Perms(n) == {p \in [1..n -> 1..n] : \A i, j \in 1..n : p[i] = p[j] => i = j}

\* ------------------------------------------------------------- tensor ops
\* torch.Tensor.size(d)
Size0(T) == Len(T)
Size1(T) == IF Len(T) = 0 THEN 0 ELSE Len(T[1])

\* torch.Tensor.transpose(0, 1)
transpose(T) ==
    [j \in 1..Size1(T) |-> [i \in 1..Size0(T) |-> T[i][j]]]

\* torch.Tensor.index_select(dim, index): entry i along dim is entry
\* index[i] of the operand
index_select(T, dim, index) ==
    IF dim = 0
    THEN [i \in 1..Len(index) |-> T[index[i]]]
    ELSE [r \in 1..Size0(T) |-> [j \in 1..Len(index) |-> T[r][index[j]]]]

\* elementwise addition of two tensors of one shape
CellAdd(a, b) ==
    Cell(IF a.ex = b.ex THEN a.ex ELSE 0 - 1,
         IF a.pos = b.pos THEN a.pos ELSE 0 - 1,
         a.v + b.v)

TensorAdd(X, Y) ==
    [i \in 1..Size0(X) |-> [j \in 1..Size1(X) |-> CellAdd(X[i][j], Y[i][j])]]

\* --------------------------------------------------------- packed sequences
\* torch.nn.utils.rnn.pack_padded_sequence: row r of the batch keeps its
\* first lengths[r] time steps.  The operand is (batch, seq) when
\* batch_first and (seq, batch) otherwise.
pack_padded_sequence(T, lengths, batch_first) ==
    LET B == IF batch_first THEN T ELSE transpose(T)
    IN  [rows |-> [r \in 1..Len(lengths) |-> SubSeq(B[r], 1, lengths[r])],
         lengths |-> lengths]

\* torch.nn.utils.rnn.pad_packed_sequence: the (seq, batch) tensor, zero
\* filled past each row's length, and the list of lengths
pad_packed_sequence(pack) ==
    LET n == IF Len(pack.lengths) = 0 THEN 0 ELSE pack.lengths[1]
    IN  [tensor |-> [t \in 1..n |-> [r \in 1..Len(pack.lengths) |->
                        IF t <= pack.lengths[r] THEN pack.rows[r][t] ELSE PadCell]],
         lengths |-> pack.lengths]

NoPack == [rows |-> <<>>, lengths |-> <<>>]

\* a comparison of the padded shapes only: the batch size and the longest
\* length
padded_shapes_differ(x_lengths, y_lengths) ==
    Len(x_lengths) # Len(y_lengths) \/ x_lengths[1] # y_lengths[1]

\* r_net.py 14: pad_packed_sequence returns the lengths as a list, and two
\* lists differ when they differ in size or in any position
pack_residual_lengths_differ(x_lengths, y_lengths) == x_lengths # y_lengths

\* pack_residual (r_net.py 10-17)
pack_residual(x_pack, y_pack) ==
    LET x == pad_packed_sequence(x_pack)
        y == pad_packed_sequence(y_pack)
    IN  IF pack_residual_lengths_differ(x.lengths, y.lengths)
        THEN [err |-> "ValueError", pack |-> NoPack]
        ELSE [err |-> "",
              pack |-> pack_padded_sequence(TensorAdd(x.tensor, y.tensor),
                                            x.lengths, FALSE)]

\* ---------------------------------------------------------------- Documents
\* utils.dataset.Documents is not among the source files; it is modelled
\* from the data model of the specification: the batch is kept sorted by
\* descending length, with the permutation between the two orders.
sort_idx(sorted_idx) ==
    [i \in 1..Len(sorted_idx) |-> CHOOSE r \in 1..Len(sorted_idx) : sorted_idx[r] = i]

\* the permutations torch.sort(lengths, descending=True) may return
SortedIdxChoices(original_lengths) ==
    {p \in Perms(Len(original_lengths)) :
        IsDescending([r \in 1..Len(original_lengths) |-> original_lengths[p[r]]])}

Documents(original_lengths, sorted_idx) ==
    LET n == Len(original_lengths)
        width == CHOOSE m \in Range(original_lengths) :
                    \A k \in Range(original_lengths) : m >= k
    IN  [original_lengths |-> original_lengths,
         sorted_idx |-> sorted_idx,
         original_idx |-> sort_idx(sorted_idx),
         lengths |-> [r \in 1..n |-> original_lengths[sorted_idx[r]]],
         width |-> width,
         mask_original |-> [i \in 1..n |-> [t \in 1..width |->
                               Cell(i, t, IF t <= original_lengths[i] THEN 1 ELSE 0)]]]

\* a restore that selects by the sorting permutation instead of its inverse
restore_by_sorted_idx(doc, sorted_tensor, batch_dim) ==
    index_select(sorted_tensor, batch_dim, doc.sorted_idx)

restore_original_order(doc, sorted_tensor, batch_dim) ==
    index_select(sorted_tensor, batch_dim, doc.original_idx)

to_sorted_order(doc, original_tensor, batch_dim) ==
    index_select(original_tensor, batch_dim, doc.sorted_idx)


\* ------------------------------------------------------------------- state
VARIABLES
    \* RNet.forward: its arguments, self.residual and its position
    question, passage, embedded_question, embedded_passage, residual, pc,
    \* RNet.forward: its locals
    question_pack, passage_pack, question_pad, question_mask,
    paired_passage_pack, self_matched_passage_pack, result,
    \* the calls made so far: the sub-modules invoked with their operands,
    \* and the stages of RNet.forward run
    calls, stages,
    \* an order conversion of one Documents object: the object, the batch
    \* dimension, the tensor, its current value and the conversions applied
    documents, batch_dim, X, converted, conversions,
    \* a call of pack_residual: its operands and what it gave
    x_pack, y_pack, residual_out,
    \* a CharLevelWordEmbeddingCnn (None before __init__), the last call of
    \* its forward, and the last call of RNet.__init__
    cnn, cnn_out, rnet_init,
    \* Model: whether an accelerator is there, args.device_id, where the
    \* caller's batch lives, where each sub-module's parameters live, where
    \* the tensors of Model.forward live, its position and its failure
    cuda_available, device_id, input_device, param_device, tensor_device,
    mpc, device_error

fwdArgs == <<question, passage, embedded_question, embedded_passage, residual>>
fwdLocals == <<question_pack, passage_pack, question_pad, question_mask,
               paired_passage_pack, self_matched_passage_pack, result>>
fwdVars == <<fwdArgs, pc, fwdLocals, calls, stages>>
orderVars == <<documents, batch_dim, X, converted, conversions>>
residualVars == <<x_pack, y_pack, residual_out>>
configVars == <<cnn, cnn_out, rnet_init>>
deviceVars == <<cuda_available, device_id, input_device, param_device,
                tensor_device, mpc, device_error>>
vars == <<fwdVars, orderVars, residualVars, configVars, deviceVars>>
notFwd == <<orderVars, residualVars, configVars, deviceVars>>

\* ------------------------------------------------------- opaque sub-modules
\* The content a sub-module returns is a value of its own: the k-th call
\* of a pass returns cells of content 10^k, so that a sum of outputs shows
\* its summands.
CallCode(log) == 10 ^ (Len(log) + 1)

CallRec(stage, pack, query, keys, key_mask, hidden, out) ==
    [stage |-> stage, pack |-> pack, query |-> query, keys |-> keys,
     key_mask |-> key_mask, hidden |-> hidden, out |-> out]

\* a recurrent encoder over a packed sequence returns a packed sequence of
\* the same lengths: one state per time step of each example
EncodePack(pack, code) ==
    [rows |-> [r \in 1..Len(pack.rows) |-> [t \in 1..Len(pack.rows[r]) |->
                  Cell(pack.rows[r][t].ex, pack.rows[r][t].pos, code)]],
     lengths |-> pack.lengths]

\* SentenceEncoding.forward (r_net.py 208-211)
SentenceEncoding_forward(q_pack, context_pack, log) ==
    LET c1 == CallCode(log)
        question_outputs == EncodePack(q_pack, c1)
        log1 == Append(log, CallRec("question_encoder", q_pack, <<>>, <<>>, <<>>, <<>>, c1))
        c2 == CallCode(log1)
        passage_outputs == EncodePack(context_pack, c2)
        log2 == Append(log1, CallRec("passage_encoder", context_pack, <<>>, <<>>, <<>>, <<>>, c2))
    IN  [question_outputs |-> question_outputs,
         passage_outputs |-> passage_outputs,
         calls |-> log2]

\* PairEncoder.forward (r_net.py 48-51): the passage pack is encoded
\* attending over the question states under the question mask
PairEncoder_forward(questions, question_mark, psg, log) ==
    LET c == CallCode(log)
    IN  [pack |-> EncodePack(psg, c),
         calls |-> Append(log, CallRec("pair_encoder", psg, <<>>, questions,
                                       question_mark, <<>>, c))]

\* SelfMatchingEncoder.forward (r_net.py 80-82)
SelfMatchingEncoder_forward(questions, question_mark, psg, log) ==
    LET c == CallCode(log)
    IN  [pack |-> EncodePack(psg, c),
         calls |-> Append(log, CallRec("self_matching_encoder", psg, <<>>, questions,
                                       question_mark, <<>>, c))]

\* modules.attention.AttentionPooling over keys (seq, batch) under key_mask
\* (seq, batch): one pooled vector per example, and one score per key
\* position per example; a masked position is excluded (score content 0)
AttentionPooling(keys, query, key_mask, code) ==
    [pooled |-> << [b \in 1..Size1(keys) |-> Cell(keys[1][b].ex, 0, code)] >>,
     scores |-> [t \in 1..Size0(keys) |-> [b \in 1..Size1(keys) |->
                    Cell(keys[1][b].ex, t,
                         IF key_mask[t][b].v = 1 THEN code ELSE 0)]]]

\* modules.recurrent.StackedCell: one step of every layer
StackedCell(inputs, hidden, code) ==
    [output |-> [b \in 1..Len(inputs) |-> Cell(inputs[b].ex, 0, code)],
     hidden |-> [l \in 1..Len(hidden) |-> [b \in 1..Len(inputs) |->
                    Cell(inputs[b].ex, 0, code)]]]

\* PointerNetwork.V_q (r_net.py 229): one learned query, shape (1, 1, n)
V_q == << << Cell(0, 0, 1) >> >>

\* hidden.expand([num_layers, batch, n]) of a (1, batch, n) tensor
expand(hidden, num_layers) == [l \in 1..num_layers |-> hidden[1]]

\* the first pooling of PointerNetwork.forward (r_net.py 237-238)
PointerBeginQuery(hidden, output) == hidden

\* a second pooling conditioned on the hidden state the cell started from
PointerEndQueryStale(hidden, output) == hidden

\* the second pooling of PointerNetwork.forward (r_net.py 243-244)
PointerEndQuery(hidden, output) == << output >>

\* PointerNetwork.forward (r_net.py 233-246)
PointerNetwork_forward(q_pad, q_mask, passage_pad, passage_mask, num_layers, log) ==
    LET c1 == CallCode(log)
        hidden == AttentionPooling(q_pad, V_q, q_mask, c1).pooled
        log1 == Append(log, CallRec("question_pooling", NoPack, V_q, q_pad, q_mask, <<>>, c1))
        c2 == CallCode(log1)
        first == AttentionPooling(passage_pad, PointerBeginQuery(hidden, <<>>),
                                  passage_mask, c2)
        log2 == Append(log1, CallRec("passage_pooling", NoPack,
                                     PointerBeginQuery(hidden, <<>>),
                                     passage_pad, passage_mask, <<>>, c2))
        hidden_l == expand(hidden, num_layers)
        c3 == CallCode(log2)
        step == StackedCell(first.pooled[1], hidden_l, c3)
        log3 == Append(log2, CallRec("cell", NoPack, first.pooled, <<>>, <<>>, hidden_l, c3))
        c4 == CallCode(log3)
        second == AttentionPooling(passage_pad, PointerEndQuery(hidden, step.output),
                                   passage_mask, c4)
        log4 == Append(log3, CallRec("passage_pooling", NoPack,
                                     PointerEndQuery(hidden, step.output),
                                     passage_pad, passage_mask, <<>>, c4))
    IN  [ans_begin |-> first.scores, ans_end |-> second.scores, calls |-> log4]


\* ------------------------------------------------------------ RNet.forward
NoTensor == <<>>

\* The embedded batch Model.forward hands over: Documents.tensor is kept in
\* sorted order, so row r embeds the tokens of example sorted_idx[r]; a
\* padding token embeds to the zero vector.
Embedded(doc) ==
    [r \in 1..Len(doc.lengths) |-> [t \in 1..doc.width |->
        Cell(doc.sorted_idx[r], t, IF t <= doc.lengths[r] THEN 1 ELSE 0)]]

LengthVectors == [1..BatchSize -> 1..MaxLen]

FwdInit ==
    /\ \E ql \in LengthVectors, pl \in LengthVectors :
         \E qs \in SortedIdxChoices(ql), ps \in SortedIdxChoices(pl) :
            /\ question = Documents(ql, qs)
            /\ passage = Documents(pl, ps)
    /\ embedded_question = Embedded(question)
    /\ embedded_passage = Embedded(passage)
    /\ residual \in BOOLEAN
    /\ pc = "start"
    /\ question_pack = NoPack
    /\ passage_pack = NoPack
    /\ question_pad = NoTensor
    /\ question_mask = NoTensor
    /\ paired_passage_pack = NoPack
    /\ self_matched_passage_pack = NoPack
    /\ result = [begin |-> NoTensor, end |-> NoTensor]
    /\ calls = <<>>
    /\ stages = <<>>

\* RNet._sentence_encoding (r_net.py 408-416), called at 377-379
SentenceEncode ==
    /\ pc = "start"
    /\ LET q_pack == pack_padded_sequence(embedded_question, question.lengths, TRUE)
           p_pack == pack_padded_sequence(embedded_passage, passage.lengths, TRUE)
           enc == SentenceEncoding_forward(q_pack, p_pack, calls)
       IN  /\ question_pack' = enc.question_outputs
           /\ passage_pack' = enc.passage_outputs
           /\ calls' = enc.calls
    /\ stages' = Append(stages, "sentence_encode")
    /\ pc' = "sentence_encoded"
    /\ UNCHANGED <<notFwd, fwdArgs, question_pad, question_mask, paired_passage_pack,
                   self_matched_passage_pack, result>>

\* a pass that hands the question states over as unpacked, in the
\* question's own sorted order
QuestionPadInQuestionOrder(q_pack) == pad_packed_sequence(q_pack).tensor

\* r_net.py 380-385: the question states, from the question's sorted order
\* to the original order to the passage's sorted order
QuestionPadInPassageOrder(q_pack) ==
    LET question_encoded_padded_sorted == pad_packed_sequence(q_pack).tensor
        question_encoded_padded_original ==
            restore_original_order(question, question_encoded_padded_sorted, 1)
    IN  to_sorted_order(passage, question_encoded_padded_original, 1)

\* r_net.py 386-387: the question mask in the passage's sorted order
QuestionMaskInPassageOrder ==
    transpose(to_sorted_order(passage, question.mask_original, 0))

\* a pass that leaves the passage mask in the caller's order
PassageMaskOriginalOrder == transpose(passage.mask_original)

\* r_net.py 403 and 421: the passage mask in the passage's sorted order
PassageMaskSortedOrder ==
    transpose(to_sorted_order(passage, passage.mask_original, 0))

\* r_net.py 380-387
ReconcileOrder ==
    /\ pc = "sentence_encoded"
    /\ question_pad' = QuestionPadInPassageOrder(question_pack)
    /\ question_mask' = QuestionMaskInPassageOrder
    /\ stages' = Append(stages, "reconcile")
    /\ pc' = "reconciled"
    /\ UNCHANGED <<notFwd, fwdArgs, question_pack, passage_pack, paired_passage_pack,
                   self_matched_passage_pack, result, calls>>

\* RNet._pair_encode (r_net.py 426-433), called at 389-390
PairEncode ==
    /\ pc = "reconciled"
    /\ LET enc == PairEncoder_forward(question_pad, question_mask, passage_pack, calls)
       IN  /\ paired_passage_pack' = enc.pack
           /\ calls' = enc.calls
    /\ stages' = Append(stages, "pair_encode")
    /\ pc' = "paired"
    /\ UNCHANGED <<notFwd, fwdArgs, question_pack, passage_pack, question_pad, question_mask,
                   self_matched_passage_pack, result>>

\* a pass that adds the residual whatever the toggle says
PairResidualAlways ==
    /\ pc = "paired"
    /\ LET r == pack_residual(paired_passage_pack, passage_pack)
       IN  /\ paired_passage_pack' = r.pack
           /\ stages' = Append(stages, "pair_residual")
           /\ pc' = IF r.err = "" THEN "pair_done" ELSE "error"
    /\ UNCHANGED <<notFwd, fwdArgs, question_pack, passage_pack, question_pad, question_mask,
                   self_matched_passage_pack, result, calls>>

\* r_net.py 392-393
PairResidual ==
    /\ pc = "paired"
    /\ IF residual
       THEN LET r == pack_residual(paired_passage_pack, passage_pack)
            IN  /\ paired_passage_pack' = r.pack
                /\ stages' = Append(stages, "pair_residual")
                /\ pc' = IF r.err = "" THEN "pair_done" ELSE "error"
       ELSE /\ pc' = "pair_done"
            /\ UNCHANGED <<paired_passage_pack, stages>>
    /\ UNCHANGED <<notFwd, fwdArgs, question_pack, passage_pack, question_pad, question_mask,
                   self_matched_passage_pack, result, calls>>

\* RNet._self_match_encode (r_net.py 418-424), called at 395
SelfMatchEncode ==
    /\ pc = "pair_done"
    /\ LET enc == SelfMatchingEncoder_forward(
                      pad_packed_sequence(paired_passage_pack).tensor,
                      PassageMaskSortedOrder, paired_passage_pack, calls)
       IN  /\ self_matched_passage_pack' = enc.pack
           /\ calls' = enc.calls
    /\ stages' = Append(stages, "self_match_encode")
    /\ pc' = "self_matched"
    /\ UNCHANGED <<notFwd, fwdArgs, question_pack, passage_pack, question_pad, question_mask,
                   paired_passage_pack, result>>

\* a second residual addition that adds the sentence-encoded passage pack,
\* as the first one does
SelfMatchResidualFromSentencePack ==
    <<passage_pack, self_matched_passage_pack>>

\* the operands of the second residual addition (r_net.py 398)
SelfMatchResidualOperands ==
    <<paired_passage_pack, self_matched_passage_pack>>

\* r_net.py 397-398
SelfMatchResidual ==
    /\ pc = "self_matched"
    /\ IF residual
       THEN LET ops == SelfMatchResidualOperands
                r == pack_residual(ops[1], ops[2])
            IN  /\ self_matched_passage_pack' = r.pack
                /\ stages' = Append(stages, "self_match_residual")
                /\ pc' = IF r.err = "" THEN "self_match_done" ELSE "error"
       ELSE /\ pc' = "self_match_done"
            /\ UNCHANGED <<self_matched_passage_pack, stages>>
    /\ UNCHANGED <<notFwd, fwdArgs, question_pack, passage_pack, question_pad, question_mask,
                   paired_passage_pack, result, calls>>

\* r_net.py 400-403; num_layers is the pointer network's configured depth
PointerOutput ==
    /\ pc = "self_match_done"
    /\ \E num_layers \in 1..MaxLayers :
         LET out == PointerNetwork_forward(
                        question_pad, question_mask,
                        pad_packed_sequence(self_matched_passage_pack).tensor,
                        PassageMaskSortedOrder, num_layers, calls)
         IN  /\ result' = [begin |-> out.ans_begin, end |-> out.ans_end]
             /\ calls' = out.calls
    /\ stages' = Append(stages, "pointer_network")
    /\ pc' = "pointed"
    /\ UNCHANGED <<notFwd, fwdArgs, question_pack, passage_pack, question_pad, question_mask,
                   paired_passage_pack, self_matched_passage_pack>>

\* a pass that applies the sorting permutation once more instead of its
\* inverse
ResortedOutput(scores) == to_sorted_order(passage, transpose(scores), 0)

\* r_net.py 405-406: one returned tensor
RestoredOutput(scores) ==
    restore_original_order(passage, transpose(scores), 0)

\* r_net.py 405-406
RestoreOutput ==
    /\ pc = "pointed"
    /\ result' = [begin |-> RestoredOutput(result.begin),
                  end |-> RestoredOutput(result.end)]
    /\ stages' = Append(stages, "restore_order")
    /\ pc' = "done"
    /\ UNCHANGED <<notFwd, fwdArgs, question_pack, passage_pack, question_pad, question_mask,
                   paired_passage_pack, self_matched_passage_pack, calls>>

FwdNext ==
    \/ SentenceEncode
    \/ ReconcileOrder
    \/ PairEncode
    \/ PairResidual
    \/ SelfMatchEncode
    \/ SelfMatchResidual
    \/ PointerOutput
    \/ RestoreOutput

\* ------------------------------------------------------- order conversions
\* a tensor whose batch axis is batch_dim: n examples, m entries each
BatchAlignedTensor(n, m, dim) ==
    IF dim = 0
    THEN [i \in 1..n |-> [j \in 1..m |-> Cell(i, j, i * j)]]
    ELSE [j \in 1..m |-> [i \in 1..n |-> Cell(i, j, i * j)]]

OrderInit ==
    /\ \E l \in LengthVectors : \E p \in SortedIdxChoices(l) : documents = Documents(l, p)
    /\ batch_dim \in {0, 1}
    /\ \E m \in 1..MaxLen : X = BatchAlignedTensor(BatchSize, m, batch_dim)
    /\ converted = X
    /\ conversions = <<>>

OrderIdle ==
    /\ documents = Documents(<<1>>, <<1>>)
    /\ batch_dim = 0
    /\ X = NoTensor
    /\ converted = NoTensor
    /\ conversions = <<>>

\* Documents.to_sorted_order applied to the current tensor
ToSortedOrder ==
    /\ Len(conversions) < 2
    /\ converted' = to_sorted_order(documents, converted, batch_dim)
    /\ conversions' = Append(conversions, "to_sorted_order")
    /\ UNCHANGED <<documents, batch_dim, X, fwdVars, residualVars, configVars, deviceVars>>

\* Documents.restore_original_order applied to the current tensor
RestoreOriginalOrder ==
    /\ Len(conversions) < 2
    /\ converted' = restore_original_order(documents, converted, batch_dim)
    /\ conversions' = Append(conversions, "restore_original_order")
    /\ UNCHANGED <<documents, batch_dim, X, fwdVars, residualVars, configVars, deviceVars>>

OrderNext == ToSortedOrder \/ RestoreOriginalOrder

\* ------------------------------------------------------------ pack_residual
\* a packed batch of the given lengths with a content of its own per cell
PackOf(lengths, unit) ==
    [rows |-> [r \in 1..Len(lengths) |-> [t \in 1..lengths[r] |->
                  Cell(r, t, unit * (MaxLen * r + t))]],
     lengths |-> lengths]

\* the length vectors a packed sequence can have: descending
PackLengths ==
    {l \in UNION {[1..n -> 1..MaxLen] : n \in 1..BatchSize} : IsDescending(l)}

NotCalled == [called |-> FALSE, err |-> "", pack |-> NoPack]

ResidualInit ==
    /\ \E l \in PackLengths : x_pack = PackOf(l, 1)
    /\ \E l \in PackLengths : y_pack = PackOf(l, 100)
    /\ residual_out = NotCalled

ResidualIdle ==
    /\ x_pack = NoPack
    /\ y_pack = NoPack
    /\ residual_out = NotCalled

\* a call of pack_residual (r_net.py 10-17)
PackResidual ==
    /\ ~residual_out.called
    /\ LET r == pack_residual(x_pack, y_pack)
       IN  residual_out' = [called |-> TRUE, err |-> r.err, pack |-> r.pack]
    /\ UNCHANGED <<x_pack, y_pack, fwdVars, orderVars, configVars, deviceVars>>

ResidualNext == PackResidual

\* ----------------------------------------- CharLevelWordEmbeddingCnn, RNet
NoCnn ==
    [constructed |-> FALSE, err |-> "", num_filters |-> 0, ngram_filter_sizes |-> <<>>,
     configured_output_dim |-> 0, has_output_layer |-> FALSE, output_dim |-> 0]

\* CharLevelWordEmbeddingCnn.__init__ (r_net.py 101-139); output_dim 0
\* stands for an output_dim that is None or 0, which line 138 and 139 treat
\* alike
CharLevelWordEmbeddingCnn_init(num_filters, ngram_filter_sizes, output_dim) ==
    LET conv_out_size == Len(ngram_filter_sizes) * num_filters
    IN  [constructed |-> TRUE, err |-> "",
         num_filters |-> num_filters,
         ngram_filter_sizes |-> ngram_filter_sizes,
         configured_output_dim |-> output_dim,
         has_output_layer |-> output_dim # 0,
         output_dim |-> IF output_dim # 0 THEN output_dim ELSE conv_out_size]

\* one layer of cnn_layers (r_net.py 127-135) on (rows, channels, chars):
\* Conv1d without padding leaves chars - filter_size + 1 positions and needs
\* at least one; Max(2) then leaves (rows, num_filters)
ConvLayerOut(char_num, filter_size) == char_num - filter_size + 1

\* CharLevelWordEmbeddingCnn.forward (r_net.py 141-159) on a tensor of the
\* given shape, without a mask: the shape returned, or the error raised
CharLevelWordEmbeddingCnn_forward(self, shape) ==
    LET batch_num == shape[1]
        word_num == shape[2]
        char_num == shape[3]
        rows == batch_num * word_num
        sizes == self.ngram_filter_sizes
        conv_width == IF Len(sizes) > 1 THEN Len(sizes) * self.num_filters
                      ELSE self.num_filters
        width == IF self.has_output_layer THEN self.output_dim ELSE conv_width
    IN  IF \E k \in 1..Len(sizes) : ConvLayerOut(char_num, sizes[k]) < 1
        THEN [called |-> TRUE, input |-> shape, err |-> "RuntimeError", shape |-> <<>>]
        ELSE IF Len(sizes) = 0
        THEN [called |-> TRUE, input |-> shape, err |-> "IndexError", shape |-> <<>>]
        ELSE [called |-> TRUE, input |-> shape, err |-> "",
              shape |-> <<batch_num, word_num, (rows * width) \div (batch_num * word_num)>>]

NoForward == [called |-> FALSE, input |-> <<>>, err |-> "", shape |-> <<>>]

FilterSizeTuples == UNION {[1..n -> 1..MaxWidth] : n \in 0..MaxWidths}

\* a call of CharLevelWordEmbeddingCnn.__init__.  nn.Linear(0, output_dim),
\* built when no filter width is given and an output_dim is, is rejected by
\* some versions of the library and accepted by others.
CharCnnInit ==
    /\ ~cnn.constructed /\ cnn.err = ""
    /\ ~rnet_init.called
    /\ \E num_filters \in 1..MaxDim, sizes \in FilterSizeTuples, output_dim \in 0..MaxDim :
         \/ cnn' = CharLevelWordEmbeddingCnn_init(num_filters, sizes, output_dim)
         \/ /\ Len(sizes) = 0 /\ output_dim # 0
            /\ cnn' = [NoCnn EXCEPT !.err = "ZeroDivisionError"]
    /\ UNCHANGED <<cnn_out, rnet_init, fwdVars, orderVars, residualVars, deviceVars>>

\* a call of forward on the constructed CharLevelWordEmbeddingCnn
CharCnnForward ==
    /\ cnn.constructed
    /\ ~cnn_out.called
    /\ \E batch_num \in 1..BatchSize, word_num \in 1..MaxLen, char_num \in 1..MaxWidth :
         cnn_out' = CharLevelWordEmbeddingCnn_forward(cnn, <<batch_num, word_num, char_num>>)
    /\ UNCHANGED <<cnn, rnet_init, fwdVars, orderVars, residualVars, deviceVars>>

Directions(bidirectional) == IF bidirectional THEN 2 ELSE 1

\* r_net.py 367: "for name, weight in self.parameters()" unpacks each
\* parameter, a tensor, into two names, which takes a first dimension of 2
UnpacksIntoTwo(shape) == shape[1] = 2

\* the parameters PointerNetwork declares itself: V_q (r_net.py 229)
PointerNetworkParameters(question_size) == << <<1, 1, question_size>> >>

NoRNet ==
    [called |-> FALSE, err |-> "", pair_output_size |-> 0,
     self_matching_input_size |-> 0, self_matching_output_size |-> 0,
     pointer_passage_size |-> 0]

\* RNet.__init__ (r_net.py 322-369): the sizes each stage is declared with,
\* none compared with another, and the initialisation loop
RNet_init(sentence_hidden, sentence_bidirectional, pair_hidden, pair_bidirectional, self_hidden, self_bidirectional) ==
    LET sentence_encoding_direction == Directions(sentence_bidirectional)
        pair_encoding_num_direction == Directions(pair_bidirectional)
        question_size == sentence_encoding_direction * sentence_hidden
        passage_size == pair_encoding_num_direction * pair_hidden
        parameters == PointerNetworkParameters(question_size)
    IN  [called |-> TRUE,
         err |-> IF \A k \in 1..Len(parameters) : UnpacksIntoTwo(parameters[k])
                 THEN "" ELSE "ValueError",
         pair_output_size |-> pair_hidden * pair_encoding_num_direction,
         self_matching_input_size |-> self_hidden * pair_encoding_num_direction,
         self_matching_output_size |-> self_hidden * Directions(self_bidirectional),
         pointer_passage_size |-> passage_size]

\* a call of RNet.__init__
RNetInit ==
    /\ ~rnet_init.called
    /\ ~cnn.constructed /\ cnn.err = ""
    /\ \E sh \in 1..MaxDim, ph \in 1..MaxDim, mh \in 1..MaxDim :
         \E sb \in BOOLEAN, pb \in BOOLEAN, mb \in BOOLEAN :
            rnet_init' = RNet_init(sh, sb, ph, pb, mh, mb)
    /\ UNCHANGED <<cnn, cnn_out, fwdVars, orderVars, residualVars, deviceVars>>

ConfigInit ==
    /\ cnn = NoCnn
    /\ cnn_out = NoForward
    /\ rnet_init = NoRNet

ConfigIdle == ConfigInit

ConfigNext == CharCnnInit \/ CharCnnForward \/ RNetInit

\* ------------------------------------------------------------------- Model
CudaDevices == {"cuda:0", "cuda:1"}

SameDevice(devices) == Cardinality(devices) = 1

NoTensors ==
    [question |-> "none", passage |-> "none",
     question_char |-> "none", passage_char |-> "none",
     embedded_question |-> "none", embedded_passage |-> "none",
     embedded_question_char |-> "none", embedded_passage_char |-> "none",
     embedded_question_merged |-> "none", embedded_passage_merged |-> "none"]

\* the devices a tensor can live on
Devices(available) == {"cpu"} \cup (IF available THEN CudaDevices ELSE {})

\* The parameters are created on the CPU; the caller's Documents and
\* CharDocuments each live on the CPU or, with an accelerator, on one of
\* its devices.
DeviceInit ==
    /\ cuda_available \in BOOLEAN
    /\ device_id \in CudaDevices
    /\ input_device \in [documents : Devices(cuda_available),
                         char_documents : Devices(cuda_available)]
    /\ param_device = [word_embedding |-> "cpu", char_embedding |-> "cpu",
                       r_net |-> "cpu", cuda_called |-> FALSE]
    /\ tensor_device = [NoTensors EXCEPT !.question = input_device.documents,
                                         !.passage = input_device.documents,
                                         !.question_char = input_device.char_documents,
                                         !.passage_char = input_device.char_documents]
    /\ mpc = "idle"
    /\ device_error = ""

DeviceIdle ==
    /\ cuda_available = FALSE
    /\ device_id = "cuda:0"
    /\ input_device = [documents |-> "cpu", char_documents |-> "cpu"]
    /\ param_device = [word_embedding |-> "cpu", char_embedding |-> "cpu",
                       r_net |-> "cpu", cuda_called |-> FALSE]
    /\ tensor_device = NoTensors
    /\ mpc = "off"
    /\ device_error = ""

\* Model.cuda (r_net.py 315-318): r_net and char_embedding are moved, the
\* word embedding is not; without an accelerator the call raises and moves
\* nothing
ModelCuda ==
    /\ mpc = "idle"
    /\ ~param_device.cuda_called
    /\ \E d \in CudaDevices :
         param_device' =
            IF cuda_available
            THEN [param_device EXCEPT !.r_net = d, !.char_embedding = d,
                                      !.cuda_called = TRUE]
            ELSE [param_device EXCEPT !.cuda_called = TRUE]
    /\ UNCHANGED <<cuda_available, device_id, input_device, tensor_device, mpc,
                   device_error, fwdVars, orderVars, residualVars, configVars>>

\* one operation of Model.forward over the given operands: it goes on to
\* next when they live on one device and fails otherwise
DeviceStep(op, operands, next, tensors) ==
    IF SameDevice(operands)
    THEN /\ tensor_device' = tensors
         /\ mpc' = next
         /\ device_error' = ""
    ELSE /\ mpc' = "failed"
         /\ device_error' = op
         /\ UNCHANGED tensor_device

\* r_net.py 295
WordEmbed ==
    /\ mpc = "idle"
    /\ DeviceStep("word_embedding",
                  {param_device.word_embedding, tensor_device.question,
                   tensor_device.passage},
                  "embedded",
                  [tensor_device EXCEPT
                      !.embedded_question = param_device.word_embedding,
                      !.embedded_passage = param_device.word_embedding])
    /\ UNCHANGED <<cuda_available, device_id, input_device, param_device,
                   fwdVars, orderVars, residualVars, configVars>>

\* the condition of r_net.py 297
MovesToAccelerator == cuda_available

\* r_net.py 297-303
MoveToDevice ==
    /\ mpc = "embedded"
    /\ tensor_device' =
          IF MovesToAccelerator
          THEN [tensor_device EXCEPT
                   !.question_char = device_id, !.passage_char = device_id,
                   !.question = device_id, !.passage = device_id,
                   !.embedded_question = device_id, !.embedded_passage = device_id]
          ELSE tensor_device
    /\ mpc' = "placed"
    /\ UNCHANGED <<cuda_available, device_id, input_device, param_device,
                   device_error, fwdVars, orderVars, residualVars, configVars>>

\* r_net.py 306-307
CharEmbed ==
    /\ mpc = "placed"
    /\ DeviceStep("char_embedding",
                  {param_device.char_embedding, tensor_device.question_char,
                   tensor_device.passage_char},
                  "char_embedded",
                  [tensor_device EXCEPT
                      !.embedded_question_char = param_device.char_embedding,
                      !.embedded_passage_char = param_device.char_embedding])
    /\ UNCHANGED <<cuda_available, device_id, input_device, param_device,
                   fwdVars, orderVars, residualVars, configVars>>

\* r_net.py 310-311
Concat ==
    /\ mpc = "char_embedded"
    /\ DeviceStep("cat",
                  {tensor_device.embedded_passage, tensor_device.embedded_passage_char,
                   tensor_device.embedded_question, tensor_device.embedded_question_char},
                  "merged",
                  [tensor_device EXCEPT
                      !.embedded_question_merged = tensor_device.embedded_question,
                      !.embedded_passage_merged = tensor_device.embedded_passage])
    /\ UNCHANGED <<cuda_available, device_id, input_device, param_device,
                   fwdVars, orderVars, residualVars, configVars>>

\* r_net.py 313
RNetCall ==
    /\ mpc = "merged"
    /\ DeviceStep("r_net",
                  {param_device.r_net, tensor_device.question, tensor_device.passage,
                   tensor_device.embedded_question_merged,
                   tensor_device.embedded_passage_merged},
                  "returned", tensor_device)
    /\ UNCHANGED <<cuda_available, device_id, input_device, param_device,
                   fwdVars, orderVars, residualVars, configVars>>

DeviceNext ==
    \/ ModelCuda
    \/ WordEmbed
    \/ MoveToDevice
    \/ CharEmbed
    \/ Concat
    \/ RNetCall

FwdIdle ==
    /\ question = Documents(<<1>>, <<1>>)
    /\ passage = Documents(<<1>>, <<1>>)
    /\ embedded_question = NoTensor
    /\ embedded_passage = NoTensor
    /\ residual = FALSE
    /\ pc = "off"
    /\ question_pack = NoPack
    /\ passage_pack = NoPack
    /\ question_pad = NoTensor
    /\ question_mask = NoTensor
    /\ paired_passage_pack = NoPack
    /\ self_matched_passage_pack = NoPack
    /\ result = [begin |-> NoTensor, end |-> NoTensor]
    /\ calls = <<>>
    /\ stages = <<>>

\* --------------------------------------------------------- specifications
\* one pass of RNet.forward
Init == FwdInit /\ OrderIdle /\ ResidualIdle /\ ConfigIdle /\ DeviceIdle
Next == FwdNext
Spec == Init /\ [][Next]_vars

\* the order conversions of one Documents object
InitOrder == OrderInit /\ FwdIdle /\ ResidualIdle /\ ConfigIdle /\ DeviceIdle
SpecOrder == InitOrder /\ [][OrderNext]_vars

\* one call of pack_residual
InitResidual == ResidualInit /\ FwdIdle /\ OrderIdle /\ ConfigIdle /\ DeviceIdle
SpecResidual == InitResidual /\ [][ResidualNext]_vars

\* the construction of a component and the forward pass of the char CNN
InitConfig == ConfigInit /\ FwdIdle /\ OrderIdle /\ ResidualIdle /\ DeviceIdle
SpecConfig == InitConfig /\ [][ConfigNext]_vars

\* Model.cuda and one pass of Model.forward
InitDevice == DeviceInit /\ FwdIdle /\ OrderIdle /\ ResidualIdle /\ ConfigIdle
SpecDevice == InitDevice /\ [][DeviceNext]_vars


\* ------------------------------------------------- claims on RNet.forward
Identity(n) == [i \in 1..n |-> i]

CallsOf(stage) == {k \in 1..Len(calls) : calls[k].stage = stage}

\* the contents of the real (non padding) cells of a tensor, of a pack
TensorContents(T) ==
    {T[i][j].v : i \in 1..Size0(T), j \in 1..Size1(T)} \ {0}
PackContents(pack) ==
    UNION {{pack.rows[r][t].v : t \in 1..Len(pack.rows[r])} : r \in 1..Len(pack.rows)}

\* column b of a (seq, batch) tensor holds the states of example ex of doc:
\* its real cells are the positions 1..length of that example, in order
ColumnIsExample(T, b, doc, ex) ==
    /\ Size0(T) = doc.width
    /\ \A t \in 1..Size0(T) :
         IF t <= doc.original_lengths[ex]
         THEN T[t][b].ex = ex /\ T[t][b].pos = t /\ T[t][b].v # 0
         ELSE T[t][b] = PadCell

\* column b of a (seq, batch) mask marks the valid positions of example ex
ColumnMasksExample(M, b, doc, ex) ==
    /\ Size0(M) = doc.width
    /\ \A t \in 1..Size0(M) :
         /\ M[t][b].ex = ex
         /\ M[t][b].v = (IF t <= doc.original_lengths[ex] THEN 1 ELSE 0)

\* the two permutations differ, neither is the identity, and the passage's
\* is not its own inverse
IndependentOrders ==
    /\ question.sorted_idx # passage.sorted_idx
    /\ question.sorted_idx # Identity(BatchSize)
    /\ passage.sorted_idx # passage.original_idx

\* row i of a returned tensor holds the scores of the passage of example i:
\* one score per position, the padding positions masked out
RowIsPassageScores(S, i) ==
    /\ Len(S[i]) = passage.width
    /\ \A t \in 1..Len(S[i]) :
         /\ S[i][t].ex = i
         /\ S[i][t].pos = t
         /\ (S[i][t].v # 0) <=> (t <= passage.original_lengths[i])

\* C1: when RNet.forward returns, row i of begin and of end holds the scores
\* of the passage the caller supplied at batch position i, whatever the two
\* sort permutations are.
C1_OutputInOriginalOrder ==
    pc = "done" =>
        /\ Len(result.begin) = BatchSize
        /\ Len(result.end) = BatchSize
        /\ \A i \in 1..BatchSize :
             RowIsPassageScores(result.begin, i) /\ RowIsPassageScores(result.end, i)

C1_Witness ==
    /\ pc = "done"
    /\ IndependentOrders
    /\ \E i, j \in 1..BatchSize : passage.original_lengths[i] # passage.original_lengths[j]

\* C3: at the call of the pair encoder, row r of the question states and of
\* the question mask belongs to the example whose passage states are at row
\* r of the passage pack.
C3_QuestionFollowsPassageOrder ==
    \A k \in CallsOf("pair_encoder") :
        \A r \in 1..BatchSize :
            LET ex == calls[k].pack.rows[r][1].ex
            IN  /\ ex = passage.sorted_idx[r]
                /\ ColumnIsExample(calls[k].keys, r, question, ex)
                /\ ColumnMasksExample(calls[k].key_mask, r, question, ex)

C3_Witness ==
    /\ CallsOf("pair_encoder") # {}
    /\ IndependentOrders
    /\ \E i, j \in 1..BatchSize : question.original_lengths[i] # question.original_lengths[j]

\* the document whose states a stage attends over
KeysDocument(stage) ==
    IF stage \in {"pair_encoder", "question_pooling"} THEN question ELSE passage

\* C4: every (sequence, mask) pair handed to an attention stage is in one
\* batch ordering: column b of the mask marks the valid positions of the
\* example whose states are at column b of the sequence.
C4_MaskFollowsSequence ==
    \A k \in 1..Len(calls) :
        calls[k].stage \in {"pair_encoder", "self_matching_encoder",
                            "question_pooling", "passage_pooling"} =>
            /\ Size1(calls[k].keys) = BatchSize
            /\ Size1(calls[k].key_mask) = BatchSize
            /\ \A b \in 1..BatchSize :
                 LET ex == calls[k].keys[1][b].ex
                 IN  /\ ex \in 1..BatchSize
                     /\ ColumnIsExample(calls[k].keys, b, KeysDocument(calls[k].stage), ex)
                     /\ ColumnMasksExample(calls[k].key_mask, b,
                                           KeysDocument(calls[k].stage), ex)

C4_Witness ==
    /\ Cardinality(CallsOf("passage_pooling")) = 2
    /\ passage.sorted_idx # Identity(BatchSize)
    /\ question.sorted_idx # passage.sorted_idx
    /\ \E i, j \in 1..BatchSize : passage.original_lengths[i] # passage.original_lengths[j]
    /\ \E i, j \in 1..BatchSize : question.original_lengths[i] # question.original_lengths[j]


IsPrefix(s, t) == Len(s) <= Len(t) /\ SubSeq(t, 1, Len(s)) = s

ExpectedStages ==
    IF residual
    THEN <<"sentence_encode", "reconcile", "pair_encode", "pair_residual",
           "self_match_encode", "self_match_residual", "pointer_network",
           "restore_order">>
    ELSE <<"sentence_encode", "reconcile", "pair_encode", "self_match_encode",
           "pointer_network", "restore_order">>

ExpectedCalls ==
    <<"question_encoder", "passage_encoder", "pair_encoder", "self_matching_encoder",
      "question_pooling", "passage_pooling", "cell", "passage_pooling">>

\* every content among the operands of a call
OperandContents(c) ==
    PackContents(c.pack) \cup TensorContents(c.query) \cup TensorContents(c.keys)
        \cup TensorContents(c.hidden)

\* C9: the stages of a pass run once each, in the order sentence-encode,
\* reconcile, pair-encode, [pair residual,] self-match-encode, [self-match
\* residual,] pointer network, restore; every call consumes outputs of
\* earlier calls only; with the residual toggle off pack_residual is not
\* invoked and the pointer network gets the self-matching output as it is.
C9_StagesInOrder ==
    /\ pc # "error"
    /\ IsPrefix(stages, ExpectedStages)
    /\ IsPrefix([k \in 1..Len(calls) |-> calls[k].stage], ExpectedCalls)
    /\ pc = "done" => stages = ExpectedStages /\ Len(calls) = Len(ExpectedCalls)
    /\ \A k \in 1..Len(calls) :
         /\ calls[k].out = CallCode(SubSeq(calls, 1, k - 1))
         /\ \A v \in OperandContents(calls[k]) : v < calls[k].out
    /\ \A k \in CallsOf("pair_encoder") :
         /\ PackContents(calls[k].pack) = {calls[2].out}
         /\ TensorContents(calls[k].keys) = {calls[1].out}
    /\ \A k \in CallsOf("self_matching_encoder") :
         \A v \in PackContents(calls[k].pack) : (v \div calls[3].out) % 10 = 1
    /\ \A k \in CallsOf("passage_pooling") :
         /\ \A v \in TensorContents(calls[k].keys) : (v \div calls[4].out) % 10 = 1
         /\ ~residual => calls[k].keys =
                pad_packed_sequence(EncodePack(calls[4].pack, calls[4].out)).tensor

C9_Witness ==
    /\ pc = "done"
    /\ ~residual
    /\ Len(stages) = Len(ExpectedStages)
    /\ Len(calls) = Len(ExpectedCalls)

\* C10: the begin logits are the key scores of the passage pooling
\* conditioned on the question summary before any cell step, the end logits
\* those of a second pooling of the same passage tensor under the same mask,
\* conditioned on the output of exactly one step of the stacked cell fed
\* with the first pooled result; each holds one score per passage position
\* per example.
C10_PointerWiring ==
    pc \in {"pointed", "done"} =>
        LET summary == calls[5]
            first == calls[6]
            step == calls[7]
            second == calls[8]
            passage_pad == pad_packed_sequence(self_matched_passage_pack).tensor
        IN  /\ summary.stage = "question_pooling"
            /\ first.stage = "passage_pooling"
            /\ step.stage = "cell"
            /\ second.stage = "passage_pooling"
            /\ CallsOf("cell") = {7}
            /\ TensorContents(first.query) = {summary.out}
            /\ TensorContents(step.query) = {first.out}
            /\ TensorContents(step.hidden) = {summary.out}
            /\ TensorContents(second.query) = {step.out}
            /\ first.keys = passage_pad /\ second.keys = passage_pad
            /\ first.key_mask = PassageMaskSortedOrder
            /\ second.key_mask = PassageMaskSortedOrder
            /\ TensorContents(result.begin) = {first.out}
            /\ TensorContents(result.end) = {second.out}
            /\ pc = "pointed" =>
                 /\ Size0(result.begin) = passage.width /\ Size1(result.begin) = BatchSize
                 /\ Size0(result.end) = passage.width /\ Size1(result.end) = BatchSize
            /\ pc = "done" =>
                 /\ Size0(result.begin) = BatchSize /\ Size1(result.begin) = passage.width
                 /\ Size0(result.end) = BatchSize /\ Size1(result.end) = passage.width

C10_Witness ==
    /\ pc = "pointed"
    /\ Len(calls) = Len(ExpectedCalls)
    /\ Len(calls[7].hidden) > 1
    /\ passage.width > 1

\* the passage pack, in the passage's sorted order, every cell of content v
PassagePackOf(v) ==
    [rows |-> [r \in 1..BatchSize |-> [t \in 1..passage.lengths[r] |->
                  Cell(passage.sorted_idx[r], t, v)]],
     lengths |-> passage.lengths]

\* C11: with the residual toggle on, the pair-encoding stage adds the
\* sentence-encoded passage pack to the pair encoder's output, the
\* self-matching encoder is fed that sum, and the self-matching stage adds
\* that same sum to the self-matching encoder's output: the pointer network
\* is given pair_out + sentence_passage + self_match_out.
C11_ResidualAsymmetry ==
    residual =>
        /\ pc \in {"pair_done", "self_matched", "self_match_done", "pointed", "done"} =>
              paired_passage_pack = PassagePackOf(calls[3].out + calls[2].out)
        /\ \A k \in CallsOf("pair_encoder") :
              calls[k].pack = PassagePackOf(calls[2].out)
        /\ \A k \in CallsOf("self_matching_encoder") :
              calls[k].pack = PassagePackOf(calls[3].out + calls[2].out)
        /\ pc = "self_matched" =>
              self_matched_passage_pack = PassagePackOf(calls[4].out)
        /\ pc \in {"self_match_done", "pointed", "done"} =>
              self_matched_passage_pack =
                  PassagePackOf(calls[3].out + calls[2].out + calls[4].out)
        /\ \A k \in CallsOf("passage_pooling") :
              calls[k].keys = pad_packed_sequence(
                  PassagePackOf(calls[3].out + calls[2].out + calls[4].out)).tensor

C11_Witness ==
    /\ residual
    /\ pc = "pointed"
    /\ Cardinality(CallsOf("passage_pooling")) = 2
    /\ stages[4] = "pair_residual" /\ stages[6] = "self_match_residual"
    /\ passage.sorted_idx # Identity(BatchSize)
    /\ \E i, j \in 1..BatchSize : passage.original_lengths[i] # passage.original_lengths[j]

\* -------------------------------------------- claims on the other machines
\* C2: restore_original_order(to_sorted_order(X, dim), dim) = X for every
\* batch, every batch dimension and every tensor aligned to it, and the
\* same the other way round: the two conversions are inverse permutations.
C2_RoundTrip ==
    /\ conversions = <<"to_sorted_order", "restore_original_order">> => converted = X
    /\ conversions = <<"restore_original_order", "to_sorted_order">> => converted = X

C2_Witness ==
    /\ conversions = <<"to_sorted_order", "restore_original_order">>
    /\ documents.sorted_idx # documents.original_idx
    /\ batch_dim = 1
    /\ Size0(X) > 1

\* C5: pack_residual raises and returns no pack when the length vectors of
\* its operands differ anywhere; when they are equal it returns a pack of
\* these lengths whose content is the elementwise sum, no row padded or cut.
C5_PackResidual ==
    residual_out.called =>
        IF x_pack.lengths # y_pack.lengths
        THEN residual_out.err = "ValueError" /\ residual_out.pack = NoPack
        ELSE /\ residual_out.err = ""
             /\ residual_out.pack.lengths = x_pack.lengths
             /\ Len(residual_out.pack.rows) = Len(x_pack.lengths)
             /\ \A r \in 1..Len(x_pack.lengths) :
                  /\ Len(residual_out.pack.rows[r]) = x_pack.lengths[r]
                  /\ \A t \in 1..x_pack.lengths[r] :
                       residual_out.pack.rows[r][t].v =
                           x_pack.rows[r][t].v + y_pack.rows[r][t].v

C5_Witness ==
    /\ residual_out.called
    /\ residual_out.err = "ValueError"
    /\ Len(x_pack.lengths) = Len(y_pack.lengths)
    /\ x_pack.lengths[1] = y_pack.lengths[1]

\* C6: for a batch supplied on the CPU, whatever the accelerator
\* availability and whether or not Model.cuda was called, every operation
\* of Model.forward combines operands of one device.
C6_NoDeviceMismatch ==
    (input_device.documents = "cpu" /\ input_device.char_documents = "cpu")
        => device_error = ""

\* the output dimension the configuration announces
AnnouncedOutputDim ==
    IF cnn.configured_output_dim # 0
    THEN cnn.configured_output_dim
    ELSE cnn.num_filters * Len(cnn.ngram_filter_sizes)

\* C7: CharLevelWordEmbeddingCnn.forward on (batch, word_count, char_count)
\* returns (batch, word_count, output_dim) for every char_count, also one
\* smaller than a filter width.
C7_ShapeForEveryCharCount ==
    (cnn_out.called /\ Len(cnn.ngram_filter_sizes) >= 1) =>
        /\ cnn_out.err = ""
        /\ cnn_out.shape = <<cnn_out.input[1], cnn_out.input[2], AnnouncedOutputDim>>

\* the sizes RNet.__init__ declares agree with what each stage is fed
StageSizesMatch ==
    /\ rnet_init.self_matching_input_size = rnet_init.pair_output_size
    /\ rnet_init.pointer_passage_size = rnet_init.self_matching_output_size

\* C8: a component that __init__ returned has a configuration that is
\* consistent: its forward pass does not fail on a batch whose words are as
\* long as every filter, and the stage sizes of an RNet match.
C8_RejectedAtConstruction ==
    /\ (cnn_out.called /\ \A k \in 1..Len(cnn.ngram_filter_sizes) :
                             cnn_out.input[3] >= cnn.ngram_filter_sizes[k])
          => cnn_out.err = ""
    /\ (rnet_init.called /\ rnet_init.err = "") => StageSizesMatch

====
